---- MODULE Spec2Model ----
(***************************************************************************)
(* A model of the JSON validation utility of src/src/App.tsx               *)
(* (validateJsonSyntax, validateJsonSchema, checkDuplicateKeys,            *)
(* checkJsonAnomalies, validateJson) and of the handlers of the            *)
(* JsonValidator component that call it.                                   *)
(*                                                                         *)
(* Texts are sequences of one-character strings.  In-memory values are     *)
(* records tagged by the field t; a container holds its children, and a    *)
(* child [t |-> "ref", up |-> k] is a reference to the container k levels  *)
(* up the active path (the only way a JavaScript object graph is cyclic).  *)
(***************************************************************************)
EXTENDS Integers, Sequences, FiniteSets, TLC

VARIABLES given, jsonInput, validationResult, call, walk, ret

vars == <<given, jsonInput, validationResult, call, walk, ret>>

(***************************************************************************)
(* ValidationResult and ValidationError (App.tsx 60-71).  An optional      *)
(* field that the code does not set is absent from the record.             *)
(***************************************************************************)
NewResult == [valid |-> TRUE, errors |-> <<>>]

\* result.valid = false; result.errors.push(finding)
Push(result, finding) ==
  [valid |-> FALSE, errors |-> Append(result.errors, finding)]

\* how a call ends: it returns its report, it throws an error, or it never
\* returns; result is the report built so far
Return(result) == [kind |-> "return", error |-> "", result |-> result]

Throw(name, result) == [kind |-> "throw", error |-> name, result |-> result]

Diverge(result) == [kind |-> "diverge", error |-> "", result |-> result]

(***************************************************************************)
(* In-memory values.                                                       *)
(***************************************************************************)
\* the string of a sequence of characters
RECURSIVE Join(_)
Join(chars) == IF chars = <<>> THEN "" ELSE chars[1] \o Join(Tail(chars))

Null == [t |-> "null"]

Num(n) == [t |-> "number", kind |-> "finite", n |-> n]

NonFinite(k) == [t |-> "number", kind |-> k, n |-> 0]

\* a string of the given characters
Str(chars) == [t |-> "string", s |-> Join(chars), chars |-> chars]

Arr(items) == [t |-> "array", items |-> items]

Obj(entries) == [t |-> "object", entries |-> entries]

Ref(k) == [t |-> "ref", up |-> k]

\* a property: its key as a string and as its characters, and its value
Entry(chars, v) == [key |-> Join(chars), chars |-> chars, value |-> v]

IsContainer(v) == v.t \in {"array", "object"}

\* the decimal digits of n >= 0
RECURSIVE DigitChars(_)
DigitChars(n) ==
  LET d == <<"0", "1", "2", "3", "4", "5", "6", "7", "8", "9">>[(n % 10) + 1]
  IN IF n < 10 THEN <<d>> ELSE Append(DigitChars(n \div 10), d)

\* A container too long or too deep to be written out is told in short.
\* An array or object of n children, of which the first is first and the
\* others are the number 1; the keys of the object are "1", "2", ...
LargeArray(n, first) == [t |-> "array", n |-> n, first |-> first]

LargeObject(n, first) == [t |-> "object", n |-> n, first |-> first]

\* v inside k containers, arrays or objects with the one key "a"
Wrap(v, k, kind) == IF k = 0 THEN v ELSE [t |-> kind, wraps |-> k, inner |-> v]

\* the number of children of a container, its i-th child (i from 1) as it
\* is stored, and the key of the i-th property of an object
Size(obj) ==
  CASE "n" \in DOMAIN obj -> obj.n
    [] "wraps" \in DOMAIN obj -> 1
    [] obj.t = "array" -> Len(obj.items)
    [] OTHER -> Len(obj.entries)

Item(obj, i) ==
  CASE "n" \in DOMAIN obj -> IF i = 1 THEN obj.first ELSE Num(1)
    [] "wraps" \in DOMAIN obj -> Wrap(obj.inner, obj.wraps - 1, obj.t)
    [] obj.t = "array" -> obj.items[i]
    [] OTHER -> obj.entries[i].value

KeyAt(obj, i) ==
  CASE "n" \in DOMAIN obj -> Join(DigitChars(i))
    [] "wraps" \in DOMAIN obj -> "a"
    [] OTHER -> obj.entries[i].key

\* `${obj}` of a number
NumText(v) == IF v.kind = "finite" THEN ToString(v.n) ELSE v.kind

(***************************************************************************)
(* checkJsonAnomalies (App.tsx 479-597).  Its three walkers are recursive: *)
(* the calls that are in the loop over the children of a container are     *)
(* kept on a stack, as the engine keeps them.  A walk is the walker that   *)
(* runs, its stack, the report so far, and how the walk stands: kind is    *)
(* "run", "return", or "throw" with the name of the error.                 *)
(***************************************************************************)
MAX_DEPTH == 100

MAX_COLLECTION_SIZE == 100000

\* the number of nested calls the JavaScript engine allows before it throws
\* RangeError; every acyclic value of the model is shallower
StackLimit == 130

\* the TypeError messages of JSON.stringify on a cyclic value, per engine
\* (V8; SpiderMonkey)
StringifyMessages ==
  {"Converting circular structure to JSON", "cyclic object value"}

\* error.message.includes('circular')
IncludesCircular(message) == message = "Converting circular structure to JSON"

\* JSON.stringify throws its TypeError exactly when the walk meets an object
\* that is on its own active path
RECURSIVE IsCyclic(_)
IsCyclic(v) ==
  CASE v.t = "ref" -> TRUE
    [] IsContainer(v) -> \E i \in 1..Size(v) : IsCyclic(Item(v, i))
    [] OTHER -> FALSE

\* `${path}[${index}]`
IndexPath(path, index) == path \o "[" \o ToString(index) \o "]"

\* the member path as a slip would write it: the separator is always there
KeyPathAlwaysDot(path, key) == path \o "." \o key

\* path ? `${path}.${key}` : key
KeyPath(path, key) == IF path # "" THEN path \o "." \o key ELSE key

\* the path passed down for the i-th child (i from 1) of a container
ChildPath(obj, path, i) ==
  IF obj.t = "array" THEN IndexPath(path, i - 1)
  ELSE KeyPath(path, KeyAt(obj, i))

NewWalk(result) ==
  [walker |-> "checkForInvalidNumbers", stack |-> <<>>, result |-> result,
   kind |-> "run", error |-> ""]

\* a call in its loop: its arguments obj and path or currentDepth, its local
\* maxDepth, the index i of the next child, and up, the place on the stack
\* of the call whose obj holds this obj (0: none)
Frame(obj, path, currentDepth, up) ==
  [obj |-> obj, path |-> path, currentDepth |-> currentDepth,
   maxDepth |-> currentDepth, up |-> up, i |-> 1]

Top(w) == w.stack[Len(w.stack)]

\* result.valid = false; result.errors.push(finding)
Found(w, finding) == [w EXCEPT !.result = Push(@, finding)]

\* the call goes into its loop
Entered(w, frame) == [w EXCEPT !.stack = Append(@, frame)]

Max(a, b) == IF a >= b THEN a ELSE b

\* a call of checkDepth returns depth: maxDepth = Math.max(maxDepth, depth)
\* in its caller, if it has one
ReturnedDepth(w, depth) ==
  IF w.stack = <<>> \/ Top(w).maxDepth >= depth THEN w
  ELSE [w EXCEPT !.stack[Len(w.stack)].maxDepth = depth]

InvalidNumberError(obj, path) ==
  [type |-> "InvalidNumber",
   message |-> <<"Invalid number value: ", NumText(obj)>>,
   path |-> path]

\* checkForInvalidNumbers(obj, path), up to its loop
checkForInvalidNumbers(w, obj, path, up) ==
  CASE obj.t = "null" -> w
    [] obj.t = "number" /\ obj.kind # "finite" ->
         Found(w, InvalidNumberError(obj, path))
    [] IsContainer(obj) -> Entered(w, Frame(obj, path, 0, up))
    [] OTHER -> w

ExcessiveNestingError ==
  [type |-> "ExcessiveNesting",
   message |-> <<"JSON exceeds maximum recommended nesting depth of ",
                 ToString(MAX_DEPTH)>>]

\* checkDepth(obj, currentDepth), up to its loop
checkDepth(w, obj, currentDepth, up) ==
  CASE currentDepth > MAX_DEPTH ->
         ReturnedDepth(Found(w, ExcessiveNestingError), currentDepth)
    [] ~IsContainer(obj) -> ReturnedDepth(w, currentDepth)
    [] OTHER -> Entered(w, Frame(obj, "", currentDepth, up))

\* `${path || 'root'}`
PathOrRoot(path) == IF path # "" THEN path ELSE "root"

LargeArrayError(obj, path) ==
  [type |-> "LargeArray",
   message |-> <<"Array at ", PathOrRoot(path), " contains ",
                 ToString(Size(obj)),
                 " items, which exceeds the recommended limit of ",
                 ToString(MAX_COLLECTION_SIZE)>>,
   path |-> path]

LargeObjectError(obj, path) ==
  [type |-> "LargeObject",
   message |-> <<"Object at ", PathOrRoot(path), " contains ",
                 ToString(Size(obj)),
                 " properties, which exceeds the recommended limit of ",
                 ToString(MAX_COLLECTION_SIZE)>>,
   path |-> path]

\* the size test as an off-by-one slip would write it
ExceedsSizeOffByOne(n) == n >= MAX_COLLECTION_SIZE

\* length > MAX_COLLECTION_SIZE
ExceedsSize(n) == n > MAX_COLLECTION_SIZE

\* checkSize(obj, path), up to its loop
checkSize(w, obj, path, up) ==
  CASE obj.t = "array" /\ ExceedsSize(Size(obj)) ->
         Found(w, LargeArrayError(obj, path))
    [] IsContainer(obj) ->
         Entered(IF ExceedsSize(Size(obj))
                 THEN Found(w, LargeObjectError(obj, path))
                 ELSE w,
                 Frame(obj, path, 0, up))
    [] OTHER -> w

\* a call of the walker that runs; the engine throws RangeError when its
\* stack is full
Call(w, obj, path, currentDepth, up) ==
  CASE Len(w.stack) >= StackLimit ->
         [w EXCEPT !.kind = "throw", !.error = "RangeError"]
    [] w.walker = "checkForInvalidNumbers" -> checkForInvalidNumbers(w, obj, path, up)
    [] w.walker = "checkDepth" -> checkDepth(w, obj, currentDepth, up)
    [] w.walker = "checkSize" -> checkSize(w, obj, path, up)

\* the place on the stack of the call m containers up from the call at j
RECURSIVE Ancestor(_, _, _)
Ancestor(w, j, m) == IF m = 0 THEN j ELSE Ancestor(w, w.stack[j].up, m - 1)

\* the call made in the i-th pass of the loop of the running call: the
\* walker is called on the i-th child, and a reference is the container it
\* refers to
Pass(w, i, c) ==
  LET At(a) ==
        Call(w, w.stack[a].obj, ChildPath(Top(w).obj, Top(w).path, i),
             Top(w).currentDepth + 1, w.stack[a].up)
  IN IF c.t = "ref" THEN At(Ancestor(w, Len(w.stack), c.up - 1))
     ELSE Call(w, c, ChildPath(Top(w).obj, Top(w).path, i),
               Top(w).currentDepth + 1, Len(w.stack))

\* the i-th pass of the loop of the running call; a call that goes into a
\* loop of its own leaves this loop at i + 1
Visit(w, i) ==
  LET Mark(after) ==
        IF Len(after.stack) > Len(w.stack)
        THEN [after EXCEPT !.stack[Len(w.stack)].i = i + 1]
        ELSE after
  IN Mark(Pass(w, i, Item(Top(w).obj, i)))

\* the i-th pass of the loop leaves the walk as it was: a call changes
\* nothing but the end of the walk, the stack, the report and maxDepth
Quiet(w, i) ==
  LET Same(after) ==
        /\ after.kind = w.kind
        /\ Len(after.stack) = Len(w.stack)
        /\ after.result = w.result
        /\ Top(after).maxDepth = Top(w).maxDepth
  IN Same(Visit(w, i))

\* the first of the passes lo..hi that does not leave the walk as it was,
\* hi + 1 if there is none
First(w, lo, hi) ==
  LET Least(S) == IF S = {} THEN hi + 1 ELSE CHOOSE j \in S : \A k \in S : j <= k
  IN Least({j \in lo..hi : ~Quiet(w, j)})

\* the passes lo..hi of the loop of the running call, up to the first call
\* that goes into a loop of its own or throws
RECURSIVE Each(_, _, _)
Each(w, lo, hi) ==
  LET Rest(after, j) ==
        IF after.kind = "run" /\ Len(after.stack) = Len(w.stack)
        THEN Each(after, j + 1, hi)
        ELSE after
      At(j) == IF j > hi THEN w ELSE Rest(Visit(w, j), j)
  IN At(First(w, lo, hi))

\* the loop of the running call is over and the call returns
Leave(w) ==
  LET Pop(v) == [v EXCEPT !.stack = SubSeq(@, 1, Len(@) - 1)]
  IN IF w.walker = "checkDepth" THEN ReturnedDepth(Pop(w), Top(w).maxDepth)
     ELSE Pop(w)

\* the running call goes on: to the next call that goes into its loop, to
\* its return, or to an error
Step(w) ==
  LET Loop(after) ==
        IF after.kind = "run" /\ Len(after.stack) = Len(w.stack)
        THEN Leave(after)
        ELSE after
  IN Loop(Each(w, Top(w).i, Size(Top(w).obj)))

CircularReferenceError ==
  [type |-> "CircularReference",
   message |-> <<"Circular reference detected in JSON data">>]

\* when no call is left the walker has returned: the next walker is called
\* on jsonData, and after the last one checkJsonAnomalies returns
RECURSIVE Settle(_, _)
Settle(w, jsonData) ==
  CASE w.kind # "run" \/ w.stack # <<>> -> w
    [] w.walker = "checkForInvalidNumbers" ->
         Settle(Call([w EXCEPT !.walker = "checkDepth"], jsonData, "", 0, 0),
                jsonData)
    [] w.walker = "checkDepth" ->
         Settle(Call([w EXCEPT !.walker = "checkSize"], jsonData, "", 0, 0),
                jsonData)
    [] w.walker = "checkSize" -> [w EXCEPT !.kind = "return"]

\* checkJsonAnomalies(jsonData) up to the first call of a walker that goes
\* into its loop; message is the text of the TypeError that JSON.stringify
\* throws on jsonData, "" if it throws none
Started(jsonData, message) ==
  Settle(Call(NewWalk(IF message # "" /\ IncludesCircular(message)
                      THEN Push(NewResult, CircularReferenceError)
                      ELSE NewResult),
              jsonData, "", 0, 0),
         jsonData)

\* how the call of checkJsonAnomalies ended
Outcome(w) == [kind |-> w.kind, error |-> w.error, result |-> w.result]

RECURSIVE Run(_, _)
Run(w, jsonData) ==
  IF w.kind # "run" THEN w ELSE Run(Settle(Step(w), jsonData), jsonData)

\* checkJsonAnomalies(jsonData), from its call to its end
checkJsonAnomalies(jsonData, message) ==
  Outcome(Run(Started(jsonData, message), jsonData))

(***************************************************************************)
(* Texts.  A text is a sequence of one-character strings over Alphabet;    *)
(* "" is what charAt gives beyond the end.                                 *)
(***************************************************************************)
Alphabet ==
  {"{", "}", "[", "]", "\"", ":", ",", " ", "\n", "\\", "-", "0", "1", "2",
   "a", "b"}

WhiteSpace == {" ", "\n", "\t", "\r"}

Digits == {"0", "1", "2", "3", "4", "5", "6", "7", "8", "9"}

DigitValue(c) ==
  CASE c = "0" -> 0 [] c = "1" -> 1 [] c = "2" -> 2 [] c = "3" -> 3
    [] c = "4" -> 4 [] c = "5" -> 5 [] c = "6" -> 6 [] c = "7" -> 7
    [] c = "8" -> 8 [] c = "9" -> 9

\* the character (U+0008) that the escape \b stands for
Backspace == "<U+0008>"

\* text.charAt(i - 1): positions of the model count from 1
CharAt(text, i) == IF i >= 1 /\ i <= Len(text) THEN text[i] ELSE ""

(***************************************************************************)
(* JSON.parse (ECMA-404) on a text over Alphabet: a number is an integer   *)
(* (the alphabet has no '.', 'e', 'E', '+') and there are no literals (no  *)
(* letter of true, false, null but 'a').  A failure names the position of  *)
(* the offending character, Len(text) + 1 for the end of the input.        *)
(***************************************************************************)
ParseOk(v, j) == [ok |-> TRUE, value |-> v, next |-> j]

ParseFail(at) == [ok |-> FALSE, at |-> at]

RECURSIVE SkipWs(_, _)
SkipWs(text, i) ==
  IF CharAt(text, i) \in WhiteSpace THEN SkipWs(text, i + 1) ELSE i

\* the characters of a string literal from position j, its opening quote read
RECURSIVE ParseStringFrom(_, _, _)
ParseStringFrom(text, j, acc) ==
  LET c == CharAt(text, j)
      e == CharAt(text, j + 1)
  IN CASE c = "" -> ParseFail(j)
       [] c = "\"" -> ParseOk(Str(acc), j + 1)
       [] c = "\\" ->
            IF e \in {"\"", "\\"} THEN ParseStringFrom(text, j + 2, Append(acc, e))
            ELSE IF e = "b" THEN ParseStringFrom(text, j + 2, Append(acc, Backspace))
            ELSE ParseFail(j + 1)
       [] c \in {"\n", "\t", "\r"} -> ParseFail(j)
       [] OTHER -> ParseStringFrom(text, j + 1, Append(acc, c))

RECURSIVE ParseDigits(_, _, _)
ParseDigits(text, j, n) ==
  IF CharAt(text, j) \in Digits
  THEN ParseDigits(text, j + 1, 10 * n + DigitValue(CharAt(text, j)))
  ELSE [n |-> n, next |-> j]

\* -? ( 0 | [1-9][0-9]* )
ParseNumber(text, i) ==
  LET neg == CharAt(text, i) = "-"
      j == IF neg THEN i + 1 ELSE i
      Number(d) == ParseOk(Num(IF neg THEN 0 - d.n ELSE d.n), d.next)
  IN IF CharAt(text, j) \notin Digits THEN ParseFail(j)
     ELSE Number(IF CharAt(text, j) = "0" THEN [n |-> 0, next |-> j + 1]
                 ELSE ParseDigits(text, j, 0))

\* the property list of an object after obj[key] = value: a key that is
\* already there keeps its place and takes the new value
RECURSIVE PutEntry(_, _, _)
PutEntry(entries, key, v) ==
  IF entries = <<>> THEN <<Entry(key, v)>>
  ELSE IF entries[1].chars = key THEN <<Entry(key, v)>> \o Tail(entries)
  ELSE <<entries[1]>> \o PutEntry(Tail(entries), key, v)

RECURSIVE ParseValue(_, _)
RECURSIVE ParseElements(_, _, _)
RECURSIVE ParseMembers(_, _, _)
ParseValue(text, i0) ==
  LET Members(j) == IF CharAt(text, j) = "}" THEN ParseOk(Obj(<<>>), j + 1)
                    ELSE ParseMembers(text, j, <<>>)
      Elements(j) == IF CharAt(text, j) = "]" THEN ParseOk(Arr(<<>>), j + 1)
                     ELSE ParseElements(text, j, <<>>)
      Value(i, c) ==
        CASE c = "{" -> Members(SkipWs(text, i + 1))
          [] c = "[" -> Elements(SkipWs(text, i + 1))
          [] c = "\"" -> ParseStringFrom(text, i + 1, <<>>)
          [] c = "-" \/ c \in Digits -> ParseNumber(text, i)
          [] OTHER -> ParseFail(i)
      At(i) == Value(i, CharAt(text, i))
  IN At(SkipWs(text, i0))

\* the elements of an array from position i, items read so far
ParseElements(text, i, items) ==
  LET After(v, k, c) ==
        IF c = "," THEN ParseElements(text, k + 1, Append(items, v.value))
        ELSE IF c = "]" THEN ParseOk(Arr(Append(items, v.value)), k + 1)
        ELSE ParseFail(k)
      Separator(v, k) == After(v, k, CharAt(text, k))
      Element(v) == IF ~v.ok THEN v ELSE Separator(v, SkipWs(text, v.next))
  IN Element(ParseValue(text, i))

\* the members of an object from position i, entries read so far
ParseMembers(text, i, entries) ==
  LET After(m, c, put) ==
        IF c = "," THEN ParseMembers(text, m + 1, put)
        ELSE IF c = "}" THEN ParseOk(Obj(put), m + 1)
        ELSE ParseFail(m)
      Separator(key, v, m) ==
        After(m, CharAt(text, m), PutEntry(entries, key.value.chars, v.value))
      Member(key, v) == IF ~v.ok THEN v ELSE Separator(key, v, SkipWs(text, v.next))
      Colon(key, k) == IF CharAt(text, k) # ":" THEN ParseFail(k)
                       ELSE Member(key, ParseValue(text, k + 1))
      Key(key) == IF ~key.ok THEN key ELSE Colon(key, SkipWs(text, key.next))
      Quote(j) == IF CharAt(text, j) # "\"" THEN ParseFail(j)
                  ELSE Key(ParseStringFrom(text, j + 1, <<>>))
  IN Quote(SkipWs(text, i))

\* the SyntaxError of JSON.parse: the message names the offset of an
\* unexpected character ("... at position N") and none at the end of input
ParseError(text, at) ==
  IF at > Len(text)
  THEN [name |-> "SyntaxError",
        message |-> [text |-> "Unexpected end of JSON input"]]
  ELSE [name |-> "SyntaxError",
        message |-> [text |-> "Unexpected token in JSON at position",
                     token |-> text[at], position |-> at - 1]]

\* JSON.parse(text): [ok |-> TRUE, value] or [ok |-> FALSE, error]
JSONparse(text) ==
  LET End(v, k) ==
        IF k <= Len(text) THEN [ok |-> FALSE, error |-> ParseError(text, k)]
        ELSE [ok |-> TRUE, value |-> v.value]
      Whole(v) == IF ~v.ok THEN [ok |-> FALSE, error |-> ParseError(text, v.at)]
                  ELSE End(v, SkipWs(text, v.next))
  IN Whole(ParseValue(text, 1))

(***************************************************************************)
(* validateJsonSyntax (App.tsx 78-124).                                    *)
(***************************************************************************)
\* the loop that turns an offset into (line, column): i runs from 0 to
\* position - 1 (App.tsx 95-107, and again 360-371)
RECURSIVE LineColumnFrom(_, _, _, _, _)
LineColumnFrom(text, position, i, line, column) ==
  IF i >= position THEN [line |-> line, column |-> column]
  ELSE IF CharAt(text, i + 1) = "\n"
  THEN LineColumnFrom(text, position, i + 1, line + 1, 1)
  ELSE LineColumnFrom(text, position, i + 1, line, column + 1)

LineColumn(text, position) == LineColumnFrom(text, position, 0, 1, 1)

\* error.message.match(/at position (\d+)/): the offset, or -1 for null
MatchPosition(message) ==
  IF "position" \in DOMAIN message THEN message.position ELSE -1

SyntaxErrorFinding(text, err) ==
  LET Finding(lc) == [type |-> "SyntaxError", message |-> err.message,
                      line |-> lc.line, column |-> lc.column]
      Match(position) == Finding(IF position # -1 THEN LineColumn(text, position)
                                 ELSE [line |-> 1, column |-> 1])
  IN Match(MatchPosition(err.message))

validateJsonSyntax(jsonString) ==
  LET Try(parsed) ==
        IF parsed.ok THEN Return(NewResult)
        ELSE IF parsed.error.name = "SyntaxError"
        THEN Return(Push(NewResult, SyntaxErrorFinding(jsonString, parsed.error)))
        ELSE Return(Push(NewResult, [type |-> "UnknownError",
                                     message |-> parsed.error.message]))
  IN Try(JSONparse(jsonString))

(***************************************************************************)
(* checkDuplicateKeys, first part: the scan of each line with              *)
(* /"([^"]+)"\s*:/g (App.tsx 164-200).                                     *)
(***************************************************************************)
\* jsonString.split('\n')
RECURSIVE SplitLines(_, _)
SplitLines(text, line) ==
  IF text = <<>> THEN <<line>>
  ELSE IF text[1] = "\n" THEN <<line>> \o SplitLines(Tail(text), <<>>)
  ELSE SplitLines(Tail(text), Append(line, text[1]))

\* the first position >= j of line that holds c, or 0
RECURSIVE IndexOf(_, _, _)
IndexOf(line, c, j) ==
  IF j > Len(line) THEN 0
  ELSE IF line[j] = c THEN j
  ELSE IndexOf(line, c, j + 1)

\* the match of the expression that starts at position i, if there is one:
\* a quote, one or more characters that are no quote, a quote, white space,
\* a colon
KeyMatchAt(line, i) ==
  LET Match(close, colon) ==
        IF /\ CharAt(line, i) = "\""
           /\ close > i + 1
           /\ CharAt(line, colon) = ":"
        THEN [ok |-> TRUE, key |-> Join(SubSeq(line, i + 1, close - 1)),
              column |-> i, lastIndex |-> colon + 1]
        ELSE [ok |-> FALSE]
      Key(close) == Match(close, SkipWs(line, close + 1))
  IN Key(IndexOf(line, "\"", i + 1))

\* keyRegex.exec(line) until it gives null: the matches from position i on,
\* each with match[1] and match.index + 1
RECURSIVE ExecAll(_, _)
ExecAll(line, i) ==
  LET Exec(m) ==
        IF m.ok
        THEN <<[key |-> m.key, column |-> m.column]>> \o ExecAll(line, m.lastIndex)
        ELSE ExecAll(line, i + 1)
  IN IF i > Len(line) THEN <<>> ELSE Exec(KeyMatchAt(line, i))

\* the duplicates of one line in the order of keys.entries(): key by key as
\* first met, every position of the key but its first
RECURSIVE LineDuplicates(_, _, _)
LineDuplicates(matches, i, lineNum) ==
  IF i > Len(matches) THEN <<>>
  ELSE LET key == matches[i].key
           first == \A j \in 1..(i - 1) : matches[j].key # key
           later == SelectSeq(SubSeq(matches, i + 1, Len(matches)),
                              LAMBDA m : m.key = key)
       IN (IF first
           THEN [j \in 1..Len(later) |->
                   [key |-> key, line |-> lineNum + 1, column |-> later[j].column]]
           ELSE <<>>)
          \o LineDuplicates(matches, i + 1, lineNum)

RECURSIVE RegexDuplicates(_, _)
RegexDuplicates(lines, lineNum) ==
  IF lineNum >= Len(lines) THEN <<>>
  ELSE LineDuplicates(ExecAll(lines[lineNum + 1], 1), 1, lineNum)
       \o RegexDuplicates(lines, lineNum + 1)

DuplicateKeyFinding(key, line, column) ==
  [type |-> "DuplicateKey",
   message |-> <<"Duplicate key \"", key, "\" found in object">>,
   line |-> line, column |-> column]

\* result.errors.push of every line-specific duplicate (App.tsx 283-294)
RECURSIVE PushDuplicates(_, _)
PushDuplicates(result, duplicates) ==
  IF duplicates = <<>> THEN result
  ELSE PushDuplicates(
         Push(result, DuplicateKeyFinding(duplicates[1].key, duplicates[1].line,
                                          duplicates[1].column)),
         Tail(duplicates))

(***************************************************************************)
(* checkDuplicateKeys, last part: the parser that keeps duplicate keys     *)
(* (App.tsx 296-469).  Its state is at, ch and the report; kind tells how  *)
(* a call ended: "ok", "throw" (error holds the message), "diverge".       *)
(***************************************************************************)
\* ch = input.charAt(at); at += 1
next(input, s) == [s EXCEPT !.ch = CharAt(input, s.at + 1), !.at = s.at + 1]

\* while (ch && ch <= ' ') next()
RECURSIVE white(_, _)
white(input, s) ==
  IF s.ch \in WhiteSpace THEN white(input, next(input, s)) ELSE s

\* error(m)
error(s, m) == [s EXCEPT !.kind = "throw", !.error = m]

\* the loop of string(): it ends at the closing quote only, and beyond the
\* end of the input charAt gives '' for ever
RECURSIVE StringLoop(_, _, _)
StringLoop(input, s, str) ==
  LET Escaped(s2) == IF s2.ch = "" THEN [s2 EXCEPT !.kind = "diverge"]
                     ELSE StringLoop(input, s2, Append(str, s2.ch))
      Char(s1) ==
        IF s1.ch = "\"" THEN [next(input, s1) EXCEPT !.str = str]
        ELSE IF s1.ch = "" THEN [s1 EXCEPT !.kind = "diverge"]
        ELSE IF s1.ch = "\\" THEN Escaped(next(input, s1))
        ELSE StringLoop(input, s1, Append(str, s1.ch))
  IN Char(next(input, s))

\* string(): the characters read are left in the field str
string(input, s) ==
  IF s.ch = "\"" THEN StringLoop(input, s, <<>>) ELSE [s EXCEPT !.str = <<>>]

\* the default case of value(): numbers, true, false, null
RECURSIVE SkipPrimitive(_, _)
SkipPrimitive(input, s) ==
  IF s.ch # "" /\ s.ch \notin WhiteSpace /\ s.ch \notin {",", "]", "}"}
  THEN SkipPrimitive(input, next(input, s))
  ELSE s

\* the duplicate found when key is read again: pos is at - key.length - 3
ScannerDuplicate(input, s, key) ==
  LET Finding(lc) == DuplicateKeyFinding(Join(key), lc.line, lc.column)
      pos == s.at - Len(key) - 3
  IN Finding(LineColumn(input, pos))

\* if (keys.has(key)) { ... result.errors.push(...) }
ObjectKey(input, s, keys, key) ==
  IF key \in keys
  THEN [s EXCEPT !.result = Push(s.result, ScannerDuplicate(input, s, key))]
  ELSE s

RECURSIVE value(_, _)
RECURSIVE ObjectLoop(_, _, _)
RECURSIVE ArrayLoop(_, _)

\* object(), called with ch = '{'
object(input, s) ==
  LET Open(s1) == IF s1.ch = "}" THEN next(input, s1)
                  ELSE ObjectLoop(input, s1, {})
  IN IF s.ch # "{" THEN s ELSE Open(white(input, next(input, s)))

\* while (ch) { ... } error("Bad object"), keys being the keys seen
ObjectLoop(input, s, keys) ==
  LET Separator(k, s4) ==
        IF s4.ch = "}" THEN next(input, s4)
        ELSE IF s4.ch # "," THEN error(s4, "Bad object")
        ELSE ObjectLoop(input, next(input, s4), keys \cup {k.str})
      Member(k, v) == IF v.kind # "ok" THEN v ELSE Separator(k, white(input, v))
      Colon(k, s2) ==
        IF s2.ch # ":" THEN error(s2, "Bad object")
        ELSE Member(k, value(input, ObjectKey(input, next(input, s2), keys, k.str)))
      Key(k) == IF k.kind # "ok" THEN k ELSE Colon(k, white(input, k))
      Quote(s1) == IF s1.ch # "\"" THEN error(s1, "Bad object")
                   ELSE Key(string(input, s1))
  IN IF s.ch = "" THEN error(s, "Bad object") ELSE Quote(white(input, s))

\* array()
array(input, s) ==
  LET Open(s1) == IF s1.ch = "]" THEN next(input, s1) ELSE ArrayLoop(input, s1)
  IN IF s.ch # "[" THEN error(s, "Bad array")
     ELSE Open(white(input, next(input, s)))

\* while (ch) { ... } error("Bad array")
ArrayLoop(input, s) ==
  LET Separator(s1) ==
        IF s1.ch = "]" THEN next(input, s1)
        ELSE IF s1.ch # "," THEN error(s1, "Bad array")
        ELSE ArrayLoop(input, white(input, next(input, s1)))
      Element(v) == IF v.kind # "ok" THEN v ELSE Separator(white(input, v))
  IN IF s.ch = "" THEN error(s, "Bad array") ELSE Element(value(input, s))

\* value()
value(input, s0) ==
  LET At(s) ==
        CASE s.ch = "{" -> object(input, s)
          [] s.ch = "[" -> array(input, s)
          [] s.ch = "\"" -> string(input, s)
          [] s.ch = "-" -> SkipPrimitive(input, next(input, s))
          [] OTHER -> SkipPrimitive(input, s)
  IN At(white(input, s0))

\* white(); value(); white(); if (ch) error("Syntax error")
Scan(input, result) ==
  LET s0 == [at |-> 0, ch |-> " ", result |-> result, kind |-> "ok",
             error |-> "", str |-> <<>>]
      End(s1) == IF s1.ch # "" THEN error(s1, "Syntax error") ELSE s1
      Whole(v) == IF v.kind # "ok" THEN v ELSE End(white(input, v))
  IN Whole(value(input, white(input, s0)))

(***************************************************************************)
(* checkDuplicateKeys, middle part: the comparison of two serializations   *)
(* of the parsed text (App.tsx 203-281).                                   *)
(***************************************************************************)
\* the characters of a string inside its quotes, escaped
RECURSIVE QuoteChars(_)
QuoteChars(chars) ==
  IF chars = <<>> THEN <<>>
  ELSE (CASE chars[1] = "\"" -> <<"\\", "\"">>
          [] chars[1] = "\\" -> <<"\\", "\\">>
          [] chars[1] = Backspace -> <<"\\", "b">>
          [] OTHER -> <<chars[1]>>)
       \o QuoteChars(Tail(chars))

\* JSON.stringify(v) of a parsed value
RECURSIVE JSONstringify(_)
RECURSIVE StringifyItems(_, _)
RECURSIVE StringifyEntries(_, _)
JSONstringify(v) ==
  CASE v.t = "number" ->
         IF v.n < 0 THEN <<"-">> \o DigitChars(0 - v.n) ELSE DigitChars(v.n)
    [] v.t = "string" -> <<"\"">> \o QuoteChars(v.chars) \o <<"\"">>
    [] v.t = "array" -> <<"[">> \o StringifyItems(v.items, 1) \o <<"]">>
    [] v.t = "object" -> <<"{">> \o StringifyEntries(v.entries, 1) \o <<"}">>
    [] OTHER -> <<"n", "u", "l", "l">>

StringifyItems(items, i) ==
  IF i > Len(items) THEN <<>>
  ELSE (IF i > 1 THEN <<",">> ELSE <<>>) \o JSONstringify(items[i])
       \o StringifyItems(items, i + 1)

StringifyEntries(entries, i) ==
  IF i > Len(entries) THEN <<>>
  ELSE (IF i > 1 THEN <<",">> ELSE <<>>) \o <<"\"">>
       \o QuoteChars(entries[i].chars) \o <<"\"", ":">> \o JSONstringify(entries[i].value) \o StringifyEntries(entries, i + 1)

\* JSON.parse(jsonString, (k, v) => v): the reviver gives every value back
Revive(v) == v

\* detectDuplicates(obj, path): the keys that Object.keys(obj) lists a
\* second time, each with its path
RECURSIVE detectDuplicates(_, _)
RECURSIVE detectDuplicatesEach(_, _, _, _)
detectDuplicates(obj, path) ==
  IF IsContainer(obj) THEN detectDuplicatesEach(obj, path, 1, {}) ELSE <<>>

detectDuplicatesEach(obj, path, i, keySet) ==
  IF i > Size(obj) THEN <<>>
  ELSE IF obj.t = "array"
  THEN detectDuplicates(obj.items[i],
                        IF path # "" THEN IndexPath(path, i - 1)
                        ELSE IndexPath("", i - 1))
       \o detectDuplicatesEach(obj, path, i + 1, keySet)
  ELSE LET key == obj.entries[i].key
       IN (IF key \in keySet
           THEN <<[key |-> key, path |-> KeyPath(path, key)]>> ELSE <<>>)
          \o detectDuplicates(obj.entries[i].value, KeyPath(path, key))
          \o detectDuplicatesEach(obj, path, i + 1, keySet \cup {key})

\* the findings of the duplicate key paths; key is path.split('.').pop()
\* || path, the key itself as no key of the alphabet holds a '.'
RECURSIVE PushDuplicatePaths(_, _)
PushDuplicatePaths(result, found) ==
  IF found = <<>> THEN result
  ELSE PushDuplicatePaths(
         Push(result,
              [type |-> "DuplicateKey",
               message |-> <<"Duplicate key \"",
                             IF found[1].key # "" THEN found[1].key
                             ELSE found[1].path,
                             "\" found in object at path: ", found[1].path>>,
               path |-> found[1].path]),
         Tail(found))

\* the try block of App.tsx 203-273, for a text that parses
StringifyCheck(result, parsed) ==
  IF Len(JSONstringify(parsed)) # Len(JSONstringify(Revive(parsed)))
  THEN PushDuplicatePaths(result, detectDuplicates(parsed, ""))
  ELSE result

(***************************************************************************)
(* checkDuplicateKeys (App.tsx 158-472).                                   *)
(***************************************************************************)
\* the catch of the final check (App.tsx 461-469)
ScanCatch(jsonString, s) ==
  LET Catch(syntaxResult) ==
        IF ~syntaxResult.result.valid THEN syntaxResult ELSE Return(s.result)
  IN IF s.error # "Syntax error" THEN Catch(validateJsonSyntax(jsonString))
     ELSE Return(s.result)

\* checkDuplicateKeys as a slip would write it: the catch of the try block
\* does not return the report of validateJsonSyntax, and the final check
\* runs on a text that JSON.parse rejects
checkDuplicateKeysNoFallback(jsonString) ==
  LET Final(s) ==
        CASE s.kind = "ok" -> Return(s.result)
          [] s.kind = "throw" -> ScanCatch(jsonString, s)
          [] s.kind = "diverge" -> Diverge(s.result)
      Lines(result) ==
        Final(Scan(jsonString,
                   PushDuplicates(result,
                                  RegexDuplicates(SplitLines(jsonString, <<>>), 0))))
      Try(parsed) ==
        Lines(IF parsed.ok THEN StringifyCheck(NewResult, parsed.value)
              ELSE NewResult)
  IN Try(JSONparse(jsonString))

checkDuplicateKeys(jsonString) ==
  LET \* the final check and its catch (App.tsx 296-469)
      Final(s) ==
        CASE s.kind = "ok" -> Return(s.result)
          [] s.kind = "throw" -> ScanCatch(jsonString, s)
          [] s.kind = "diverge" -> Diverge(s.result)
      \* the line-specific duplicates join the report (App.tsx 283-294)
      Lines(result) ==
        Final(Scan(jsonString,
                   PushDuplicates(result,
                                  RegexDuplicates(SplitLines(jsonString, <<>>), 0))))
      \* the try block and its catch (App.tsx 203-281); caught is how the
      \* block ended
      Caught(parsed, caught) ==
        IF ~parsed.ok /\ ~caught.result.valid THEN caught
        ELSE Lines(IF parsed.ok THEN caught.result ELSE NewResult)
      Try(parsed) ==
        Caught(parsed, IF parsed.ok
                       THEN Return(StringifyCheck(NewResult, parsed.value))
                       ELSE validateJsonSyntax(jsonString))
  IN Try(JSONparse(jsonString))

(***************************************************************************)
(* validateJsonSchema (App.tsx 132-151).  The schema is given by what Ajv  *)
(* makes of it: whether ajv.compile accepts it, and the errors its         *)
(* validate function leaves for the data (none: the data conforms).        *)
(***************************************************************************)
NoSchema == [present |-> FALSE]

Schema(compiles, errors) ==
  [present |-> TRUE, compiles |-> compiles, errors |-> errors]

\* err => ({type: 'SchemaError', message: err.message || '...', path: err.instancePath})
SchemaErrorFinding(err) ==
  [type |-> "SchemaError",
   message |-> IF err.message # "" THEN err.message
               ELSE "Unknown schema validation error",
   path |-> err.instancePath]

validateJsonSchema(jsonData, schema) ==
  LET valid == schema.errors = <<>>
  IN IF ~schema.compiles THEN Throw("Error", NewResult)
     ELSE Return([valid |-> valid,
                  errors |-> IF ~valid /\ schema.errors # <<>>
                             THEN [i \in 1..Len(schema.errors) |->
                                     SchemaErrorFinding(schema.errors[i])]
                             ELSE <<>>])

(***************************************************************************)
(* validateJson (App.tsx 605-635).                                         *)
(***************************************************************************)
\* the merge as a slip would write it: either report being valid is enough
MergeEitherValid(anomalyResult, schemaResult) ==
  [valid |-> anomalyResult.valid \/ schemaResult.valid,
   errors |-> anomalyResult.errors \o schemaResult.errors]

\* {valid: anomalyResult.valid && schemaResult.valid, errors: [...]}
Merge(anomalyResult, schemaResult) ==
  [valid |-> anomalyResult.valid /\ schemaResult.valid,
   errors |-> anomalyResult.errors \o schemaResult.errors]

validateJson(jsonString, schema) ==
  LET WithSchema(anomalyResult, schemaResult) ==
        IF schemaResult.kind # "return" THEN schemaResult
        ELSE Return(Merge(anomalyResult.result, schemaResult.result))
      Anomalies(jsonData, anomalyResult) ==
        IF anomalyResult.kind # "return" THEN anomalyResult
        ELSE IF schema.present
        THEN WithSchema(anomalyResult, validateJsonSchema(jsonData, schema))
        ELSE anomalyResult
      \* a parsed value is a tree: JSON.stringify does not throw on it
      Parsed(jsonData) == Anomalies(jsonData, checkJsonAnomalies(jsonData, ""))
      Syntax(syntaxResult) ==
        IF ~syntaxResult.result.valid THEN syntaxResult
        ELSE Parsed(JSONparse(jsonString).value)
      Duplicates(duplicateKeysResult) ==
        IF duplicateKeysResult.kind # "return" \/ ~duplicateKeysResult.result.valid
        THEN duplicateKeysResult
        ELSE Syntax(validateJsonSyntax(jsonString))
  IN Duplicates(checkDuplicateKeys(jsonString))

(***************************************************************************)
(* The inputs.  A document is a tree in which an object may repeat a key;  *)
(* a text is a document written out, whole or cut short or with a          *)
(* character too many, or is blank.                                        *)
(***************************************************************************)
MaxNodes == 4

MaxCutNodes == 3

MaxBlank == 2

MaxSchemaErrors == 2

MaxValueNodes == 3

DeepSlack == 1

\* the trees of exactly n nodes over the given leaves and keys; unique: no
\* object repeats a key
RECURSIVE TreesN(_, _, _, _)
RECURSIVE ForestsN(_, _, _, _)
TreesN(leaves, keys, unique, n) ==
  LET forests == ForestsN(leaves, keys, unique, n - 1)
  IN (IF n = 1 THEN leaves ELSE {})
     \cup {Arr(f) : f \in forests}
     \cup UNION {{Obj([i \in 1..Len(f) |-> Entry(ks[i], f[i])]) :
                    ks \in {k \in [1..Len(f) -> keys] :
                              unique => \A i, j \in 1..Len(f) :
                                          k[i] = k[j] => i = j}} :
                 f \in forests}

\* the sequences of trees of n nodes in all
ForestsN(leaves, keys, unique, n) ==
  IF n = 0 THEN {<<>>}
  ELSE UNION {{<<d>> \o f : d \in TreesN(leaves, keys, unique, k),
                            f \in ForestsN(leaves, keys, unique, n - k)} :
              k \in 1..n}

Trees(leaves, keys, unique, max) ==
  UNION {TreesN(leaves, keys, unique, n) : n \in 1..max}

\* the text of a document, with nl between its tokens
RECURSIVE Render(_, _)
RECURSIVE RenderItems(_, _, _)
RECURSIVE RenderEntries(_, _, _)
Render(d, nl) ==
  CASE d.t = "number" ->
         IF d.n < 0 THEN <<"-">> \o DigitChars(0 - d.n) ELSE DigitChars(d.n)
    [] d.t = "string" -> <<"\"">> \o QuoteChars(d.chars) \o <<"\"">>
    [] d.t = "array" ->
         IF d.items = <<>> THEN <<"[", "]">>
         ELSE <<"[">> \o nl \o RenderItems(d.items, 1, nl) \o nl \o <<"]">>
    [] d.t = "object" ->
         IF d.entries = <<>> THEN <<"{", "}">>
         ELSE <<"{">> \o nl \o RenderEntries(d.entries, 1, nl) \o nl \o <<"}">>

RenderItems(items, i, nl) ==
  IF i > Len(items) THEN <<>>
  ELSE (IF i > 1 THEN <<",">> \o nl ELSE <<>>) \o Render(items[i], nl)
       \o RenderItems(items, i + 1, nl)

RenderEntries(entries, i, nl) ==
  IF i > Len(entries) THEN <<>>
  ELSE (IF i > 1 THEN <<",">> \o nl ELSE <<>>)
       \o <<"\"">> \o QuoteChars(entries[i].chars) \o <<"\"", ":">>
       \o Render(entries[i].value, nl) \o RenderEntries(entries, i + 1, nl)

DocKeys == {<<"a">>, <<"b">>}

DocLeaves == {Num(1)}

Layouts == {<<>>, <<"\n">>}

\* a text with what it is made of: the document doc written out ("whole"),
\* cut short ("cut") or with a character too many ("more"), or no document
\* at all ("blank")
DocTexts ==
  {[text |-> Render(d, nl), doc |-> d, form |-> "whole"] :
     d \in Trees(DocLeaves, DocKeys, FALSE, MaxNodes), nl \in Layouts}

CutChars == {",", "}", "\"", "\\", "a"}

CutTexts ==
  UNION {LET t == Render(d, <<>>)
         IN {[text |-> SubSeq(t, 1, n), doc |-> d, form |-> "cut"] :
               n \in 1..(Len(t) - 1)}
            \cup {[text |-> Append(t, c), doc |-> d, form |-> "more"] :
                    c \in CutChars} :
         d \in Trees(DocLeaves, DocKeys, FALSE, MaxCutNodes)}

BlankTexts ==
  UNION {{[text |-> t, doc |-> Null, form |-> "blank"] : t \in [1..n -> {" ", "\n"}]} :
         n \in 0..MaxBlank}

TextInputs == DocTexts \cup CutTexts \cup BlankTexts

\* what Ajv reports of a data: its message (may be missing) and instancePath
AjvErrors ==
  {[message |-> "must be array", instancePath |-> ""],
   [message |-> "", instancePath |-> "/a"]}

Schemas ==
  {Schema(FALSE, <<>>)}
  \cup UNION {{Schema(TRUE, e) : e \in [1..n -> AjvErrors]} : n \in 0..MaxSchemaErrors}

\* the in-memory values handed to checkJsonAnomalies: small graphs, cyclic
\* ones among them; trees about MAX_DEPTH deep; collections about
\* MAX_COLLECTION_SIZE long
ValueKeys == {<<"a">>, <<>>}

ValueLeaves ==
  {Num(1), NonFinite("NaN"), NonFinite("Infinity"), NonFinite("-Infinity"),
   Null, Str(<<"a">>), Ref(1), Ref(2)}

\* every reference of v, depth containers below the root, names a container
RECURSIVE WellScoped(_, _)
WellScoped(v, depth) ==
  CASE v.t = "ref" -> v.up <= depth
    [] v.t = "array" ->
         \A i \in 1..Len(v.items) : WellScoped(v.items[i], depth + 1)
    [] v.t = "object" ->
         \A i \in 1..Len(v.entries) : WellScoped(v.entries[i].value, depth + 1)
    [] OTHER -> TRUE

SmallValues ==
  {v \in Trees(ValueLeaves, ValueKeys, TRUE, MaxValueNodes) : WellScoped(v, 0)}

\* what lies at the bottom of the deep values: a leaf, or a container of
\* leaves
DeepInner ==
  {v \in Trees({Num(1)}, {<<"a">>}, TRUE, MaxValueNodes) :
     IsContainer(v) => \A i \in 1..Size(v) : ~IsContainer(Item(v, i))}

LargeSizes == {MAX_COLLECTION_SIZE, MAX_COLLECTION_SIZE + 1}

Large ==
  {LargeArray(n, Num(1)) : n \in LargeSizes}
  \cup {LargeObject(n, Num(1)) : n \in LargeSizes}

Oversized == {v \in Large : Size(v) > MAX_COLLECTION_SIZE}

\* collections about the limit alone, and those over it inside a small
\* collection and first in a collection over the limit
LargeValues ==
  Large
  \cup {Arr(<<Num(1), v>>) : v \in Oversized}
  \cup {Obj(<<Entry(<<"a">>, v)>>) : v \in Oversized}
  \cup {LargeArray(MAX_COLLECTION_SIZE + 1, v) : v \in Oversized}
  \cup {LargeObject(MAX_COLLECTION_SIZE + 1, v) : v \in Oversized}

\* a value with what it is made of: it is inner inside wrapped containers of
\* one child each
ValueInputs ==
  {[kind |-> "value", value |-> v, inner |-> v, wrapped |-> 0, family |-> "small"] :
     v \in SmallValues}
  \cup {[kind |-> "value", value |-> v, inner |-> v, wrapped |-> 0, family |-> "large"] :
          v \in LargeValues}
  \cup {[kind |-> "value", value |-> Wrap(v, k, c), inner |-> v, wrapped |-> k,
          family |-> "deep"] :
          v \in DeepInner,
          k \in (MAX_DEPTH - DeepSlack)..(MAX_DEPTH + DeepSlack),
          c \in {"array", "object"}}

(***************************************************************************)
(* The state.  given is the input of the run and who brings it: the user   *)
(* of the page ("page": a text typed or uploaded into the component) or a  *)
(* caller of the exported functions ("text", "value").  jsonInput and      *)
(* validationResult are the state of the JsonValidator component           *)
(* (JsonValidator.tsx 6-7; <<>> is '' and null); call is the call of an    *)
(* exported function, walk the walk of a call of checkJsonAnomalies, and   *)
(* ret how the call ended, once it has.                                    *)
(***************************************************************************)
Given ==
  {[kind |-> k, text |-> i.text, doc |-> i.doc, form |-> i.form] :
     k \in {"page", "text"}, i \in TextInputs}
  \cup ValueInputs

NoWalk == [NewWalk(NewResult) EXCEPT !.walker = "none", !.kind = "none"]

Init ==
  /\ given \in Given
  /\ jsonInput = <<>>
  /\ validationResult = <<>>
  /\ call = [op |-> "none"]
  /\ walk = NoWalk
  /\ ret = <<>>

\* jsonInput.trim()
RECURSIVE TrimStart(_)
TrimStart(text) ==
  IF text # <<>> /\ text[1] \in WhiteSpace THEN TrimStart(Tail(text)) ELSE text

RECURSIVE TrimEnd(_)
TrimEnd(text) ==
  IF text # <<>> /\ text[Len(text)] \in WhiteSpace
  THEN TrimEnd(SubSeq(text, 1, Len(text) - 1))
  ELSE text

Trim(text) == TrimEnd(TrimStart(text))

\* handleInputChange (JsonValidator.tsx 10-13)
handleInputChange ==
  /\ given.kind = "page"
  /\ jsonInput' = given.text
  /\ validationResult' = <<>>
  /\ UNCHANGED <<given, call, walk, ret>>

\* handleFileUpload, when the reader has loaded the file (JsonValidator.tsx
\* 15-28); the name of the file is not part of the model
handleFileUpload ==
  /\ given.kind = "page"
  /\ jsonInput' = given.text
  /\ validationResult' = <<>>
  /\ UNCHANGED <<given, call, walk, ret>>

\* clearInput (JsonValidator.tsx 43-47)
clearInput ==
  /\ given.kind = "page"
  /\ jsonInput' = <<>>
  /\ validationResult' = <<>>
  /\ UNCHANGED <<given, call, walk, ret>>

EmptyInputResult ==
  [valid |-> FALSE,
   errors |-> <<[type |-> "EmptyInput", message |-> "JSON input is empty"]>>]

\* the handler without its test of the input
validateJsonInputNoTrim(text) == validateJson(text, NoSchema)

\* what validateJsonInput computes for the text in the box
validateJsonInputResult(text) ==
  IF Trim(text) = <<>> THEN Return(EmptyInputResult)
  ELSE validateJson(text, NoSchema)

\* validateJsonInput (JsonValidator.tsx 30-41); an error thrown by
\* validateJson leaves the state as it was
validateJsonInput ==
  /\ given.kind = "page"
  /\ LET Set(r) == IF r.kind = "return" THEN <<r.result>> ELSE validationResult
     IN validationResult' = Set(validateJsonInputResult(jsonInput))
  /\ UNCHANGED <<given, jsonInput, call, walk, ret>>

\* a call of validateJson(jsonString, schema?) with the given text
Call_validateJson ==
  /\ given.kind = "text" /\ call.op = "none"
  /\ \E schema \in Schemas \cup {NoSchema} :
       /\ call' = [op |-> "validateJson", schema |-> schema]
       /\ ret' = <<validateJson(given.text, schema)>>
  /\ UNCHANGED <<given, jsonInput, validationResult, walk>>

Call_checkDuplicateKeys ==
  /\ given.kind = "text" /\ call.op = "none"
  /\ call' = [op |-> "checkDuplicateKeys"]
  /\ ret' = <<checkDuplicateKeys(given.text)>>
  /\ UNCHANGED <<given, jsonInput, validationResult, walk>>

Call_validateJsonSyntax ==
  /\ given.kind = "text" /\ call.op = "none"
  /\ call' = [op |-> "validateJsonSyntax"]
  /\ ret' = <<validateJsonSyntax(given.text)>>
  /\ UNCHANGED <<given, jsonInput, validationResult, walk>>

\* the call of checkJsonAnomalies ends with its walk
Walked ==
  ret' = IF walk'.kind = "run" THEN <<>> ELSE <<Outcome(walk')>>

\* a call of checkJsonAnomalies(jsonData) with the given value, in an engine
\* whose JSON.stringify words its TypeError as message; the value is cyclic
\* when its inner value is
Call_checkJsonAnomalies ==
  /\ given.kind = "value" /\ call.op = "none"
  /\ \E message \in IF IsCyclic(given.inner) THEN StringifyMessages ELSE {""} :
       /\ call' = [op |-> "checkJsonAnomalies", message |-> message]
       /\ walk' = Started(given.value, message)
       /\ Walked
  /\ UNCHANGED <<given, jsonInput, validationResult>>

\* the call of checkJsonAnomalies goes on
Run_checkJsonAnomalies ==
  /\ call.op = "checkJsonAnomalies" /\ walk.kind = "run"
  /\ walk' = Settle(Step(walk), given.value)
  /\ Walked
  /\ UNCHANGED <<given, jsonInput, validationResult, call>>

Call_validateJsonSchema ==
  /\ given.kind = "value" /\ call.op = "none"
  /\ \E schema \in Schemas :
       /\ call' = [op |-> "validateJsonSchema", schema |-> schema]
       /\ ret' = <<validateJsonSchema(given.value, schema)>>
  /\ UNCHANGED <<given, jsonInput, validationResult, walk>>

Next ==
  \/ handleInputChange
  \/ handleFileUpload
  \/ clearInput
  \/ validateJsonInput
  \/ Call_validateJson
  \/ Call_checkDuplicateKeys
  \/ Call_validateJsonSyntax
  \/ Call_checkJsonAnomalies
  \/ Run_checkJsonAnomalies
  \/ Call_validateJsonSchema

Spec == Init /\ [][Next]_vars

(***************************************************************************)
(* What the specification says of the program.  The statements speak of    *)
(* the end of a call (ret) and of the report on the page                   *)
(* (validationResult); what a statement expects of an input is worked out  *)
(* from what the input is made of, not by the operators above.             *)
(***************************************************************************)
\* the findings of the given types in a list of findings, in their order
OfType(errors, types) == SelectSeq(errors, LAMBDA e : e.type \in types)

\* the call of an exported function has returned a report
Returned == ret # <<>> /\ ret[1].kind = "return"

\* a call of validateJson without a schema and with one
Validated == given.kind = "text" /\ call.op = "validateJson"

\* a call of checkJsonAnomalies is over
Walked_checkJsonAnomalies ==
  given.kind = "value" /\ call.op = "checkJsonAnomalies" /\ ret # <<>>

\* some object of the document d repeats a key
RECURSIVE RepeatsKey(_)
RepeatsKey(d) ==
  CASE d.t = "array" -> \E i \in 1..Len(d.items) : RepeatsKey(d.items[i])
    [] d.t = "object" ->
         \/ \E i, j \in 1..Len(d.entries) :
              i < j /\ d.entries[i].key = d.entries[j].key
         \/ \E i \in 1..Len(d.entries) : RepeatsKey(d.entries[i].value)
    [] OTHER -> FALSE

\* how often the object d has the key
Occurrences(d, key) ==
  Cardinality({i \in 1..Len(d.entries) : d.entries[i].key = key})

C2_CleanIsValid ==
  (Validated /\ ~call.schema.present /\ given.form = "whole" /\ ~RepeatsKey(given.doc))
    => ret[1] = Return(NewResult)

\* C3: for an object in which one key occurs n >= 2 times, every other key
\* once, and whose values repeat no key, validateJson returns valid = false
\* and exactly n - 1 DuplicateKey findings.
C3_OneFindingPerRepeat ==
  (/\ Validated /\ ~call.schema.present /\ given.form = "whole"
   /\ given.doc.t = "object"
   /\ \A i \in 1..Len(given.doc.entries) : ~RepeatsKey(given.doc.entries[i].value)
   /\ Cardinality({e.key : e \in {given.doc.entries[i] : i \in 1..Len(given.doc.entries)}})
        = Cardinality({k \in {given.doc.entries[i].key : i \in 1..Len(given.doc.entries)} :
                         Occurrences(given.doc, k) = 1}) + 1)
    => /\ Returned
       /\ ~ret[1].result.valid
       /\ \A k \in {given.doc.entries[i].key : i \in 1..Len(given.doc.entries)} :
            Occurrences(given.doc, k) >= 2
              => Len(OfType(ret[1].result.errors, {"DuplicateKey"}))
                   = Occurrences(given.doc, k) - 1

\* C4: for every text in which an object repeats a key and which has a
\* syntax error after it (a character too many at its end), validateJson
\* returns DuplicateKey findings and no SyntaxError finding.
C4_DuplicatesBeforeSyntax ==
  (Validated /\ given.form = "more" /\ RepeatsKey(given.doc))
    => /\ Returned
       /\ OfType(ret[1].result.errors, {"DuplicateKey"}) # <<>>
       /\ OfType(ret[1].result.errors, {"SyntaxError"}) = <<>>

\* C5: when the schema cannot be compiled, validateJsonSchema, and
\* validateJson for a text that passes its other stages, return a report
\* with valid = false and one SchemaError finding; no error is thrown.
C5_CompileFailureIsReported ==
  (/\ call.op \in {"validateJsonSchema", "validateJson"}
   /\ call.schema.present /\ ~call.schema.compiles
   /\ call.op = "validateJson" => validateJson(given.text, NoSchema) = Return(NewResult))
    => /\ Returned
       /\ ~ret[1].result.valid
       /\ Len(OfType(ret[1].result.errors, {"SchemaError"})) = 1

\* valid = true if and only if errors is empty
Consistent(result) == result.valid <=> result.errors = <<>>

Greatest(S) == IF S = {} THEN 0 ELSE CHOOSE m \in S : \A k \in S : m >= k

\* the depth of the deepest node of the tree v, whose root has depth 0
RECURSIVE Height(_)
Height(v) ==
  IF IsContainer(v) /\ Size(v) > 0
  THEN 1 + Greatest({Height(Item(v, i)) : i \in 1..Size(v)})
  ELSE 0

\* C7: for every tree, checkJsonAnomalies returns exactly one
\* ExcessiveNesting finding when some node is deeper than MAX_DEPTH, however
\* many are, and none when none is.  (The given value is its inner value
\* inside wrapped containers.)
C7_OneExcessiveNesting ==
  (Walked_checkJsonAnomalies /\ ~IsCyclic(given.inner))
    => /\ Returned
       /\ Len(OfType(ret[1].result.errors, {"ExcessiveNesting"}))
            = IF given.wrapped + Height(given.inner) > MAX_DEPTH THEN 1 ELSE 0

\* the path of a member and of an element, as the specification words it:
\* .key after the path, the bare key when the path is empty; [index] after
\* the path
MemberPath(path, key) == IF path = "" THEN key ELSE path \o "." \o key

ElementPath(path, index) == path \o "[" \o ToString(index) \o "]"

\* the collections of the tree v at path that do not lie inside an array of
\* more than MAX_COLLECTION_SIZE items, each with its path and its size
RECURSIVE Collections(_, _)
Collections(v, path) ==
  CASE v.t = "array" ->
         {[type |-> "LargeArray", path |-> path, size |-> Size(v)]}
         \cup (IF Size(v) > MAX_COLLECTION_SIZE THEN {}
               ELSE UNION {Collections(Item(v, i), ElementPath(path, i - 1)) :
                             i \in {j \in 1..Size(v) : IsContainer(Item(v, j))}})
    [] v.t = "object" ->
         {[type |-> "LargeObject", path |-> path, size |-> Size(v)]}
         \cup UNION {Collections(Item(v, i), MemberPath(path, KeyAt(v, i))) :
                       i \in {j \in 1..Size(v) : IsContainer(Item(v, j))}}
    [] OTHER -> {}

\* those of them that hold more than MAX_COLLECTION_SIZE
TooLarge(v) == {c \in Collections(v, "") : c.size > MAX_COLLECTION_SIZE}

\* the finding tells of the collection: its kind, its path, and its exact
\* size in the message
TellsOf(e, c) ==
  /\ e.type = c.type
  /\ e.path = c.path
  /\ \E k \in 1..Len(e.message) : e.message[k] = ToString(c.size)

RECURSIVE NonFiniteLeaves(_, _)
RECURSIVE NonFiniteBelow(_, _, _)
NonFiniteLeaves(v, path) ==
  CASE v.t = "number" ->
         IF v.kind = "finite" THEN <<>> ELSE <<[path |-> path, text |-> v.kind]>>
    [] IsContainer(v) -> NonFiniteBelow(v, path, 1)
    [] OTHER -> <<>>

NonFiniteBelow(v, path, i) ==
  IF i > Size(v) THEN <<>>
  ELSE NonFiniteLeaves(Item(v, i),
                       IF v.t = "array" THEN ElementPath(path, i - 1)
                       ELSE MemberPath(path, KeyAt(v, i)))
       \o NonFiniteBelow(v, path, i + 1)

\* every number of the tree v is finite
RECURSIVE AllFinite(_)
AllFinite(v) ==
  CASE v.t = "number" -> v.kind = "finite"
    [] IsContainer(v) -> \A i \in 1..Size(v) : AllFinite(Item(v, i))
    [] OTHER -> TRUE

\* C9: for every tree, checkJsonAnomalies reports each number that is NaN,
\* Infinity or -Infinity with one InvalidNumber finding and no finite
\* number, in tree order, and the path of a finding is the place of the
\* leaf: "" for the root, .key for a member (the bare key when the path so
\* far is empty), [index] for an element.
C9_InvalidNumbersInOrder ==
  (Walked_checkJsonAnomalies /\ ~IsCyclic(given.inner))
    => /\ Returned
       /\ LET found == OfType(ret[1].result.errors, {"InvalidNumber"})
          IN IF AllFinite(given.inner) THEN found = <<>>
             ELSE LET leaves == NonFiniteLeaves(given.value, "")
                  IN /\ Len(found) = Len(leaves)
                     /\ \A i \in 1..Len(leaves) :
                          /\ found[i].path = leaves[i].path
                          /\ \E k \in 1..Len(found[i].message) :
                               found[i].message[k] = leaves[i].text

\* a call has returned for an object with two numbers that are not finite
C9_TwoInvalidMembers ==
  /\ Walked_checkJsonAnomalies /\ Returned
  /\ given.value.t = "object"
  /\ Len(OfType(ret[1].result.errors, {"InvalidNumber"})) = 2

\* C10: for every value in which a container holds itself, the call of
\* checkJsonAnomalies ends by returning a report with a single
\* CircularReference finding, which has no path.
C10_CircularIsReported ==
  (Walked_checkJsonAnomalies /\ IsCyclic(given.inner))
    => /\ Returned
       /\ Len(OfType(ret[1].result.errors, {"CircularReference"})) = 1
       /\ \A i \in 1..Len(ret[1].result.errors) :
            ret[1].result.errors[i].type = "CircularReference"
              => "path" \notin DOMAIN ret[1].result.errors[i]

\* every collection of the tree v at path, also those inside a collection
\* of more than MAX_COLLECTION_SIZE, each with its path and its size
RECURSIVE EveryCollection(_, _)
EveryCollection(v, path) ==
  IF ~IsContainer(v) THEN {}
  ELSE {[type |-> IF v.t = "array" THEN "LargeArray" ELSE "LargeObject",
         path |-> path, size |-> Size(v)]}
       \cup UNION {EveryCollection(Item(v, i),
                                   IF v.t = "array" THEN ElementPath(path, i - 1)
                                   ELSE MemberPath(path, KeyAt(v, i))) :
                     i \in {j \in 1..Size(v) : IsContainer(Item(v, j))}}

\* C11: checkSize descends into every container after checking it, also one
\* it reported: every collection of the value that holds more than
\* MAX_COLLECTION_SIZE, wherever it lies (inside an array or an object over
\* the limit too), is reported with a LargeArray or LargeObject finding of
\* its own.
C11_NestedOversizedReported ==
  (Walked_checkJsonAnomalies /\ Returned /\ given.wrapped = 0)
    => \A c \in {x \in EveryCollection(given.value, "") :
                   x.size > MAX_COLLECTION_SIZE} :
         \E i \in 1..Len(ret[1].result.errors) :
           TellsOf(ret[1].result.errors[i], c)

\* a call of validateJsonSyntax for a text that JSON.parse rejects has ended
Rejected_validateJsonSyntax ==
  /\ given.kind = "text" /\ call.op = "validateJsonSyntax" /\ ret # <<>>
  /\ ~JSONparse(given.text).ok

\* the 1-based line and column of the offset (counted from 0) in the text:
\* one line more for each "\n" before the offset, the column counted from
\* the character after the last of them
LineOf(text, offset) ==
  1 + Cardinality({i \in 1..offset : text[i] = "\n"})

ColumnOf(text, offset) ==
  offset - Greatest({i \in 1..offset : text[i] = "\n"}) + 1

\* C12: for every text that JSON.parse rejects, validateJsonSyntax returns
\* valid = false and exactly one finding, a SyntaxError; when the error of
\* the parser gives an offset the finding has the 1-based line and column
\* of that offset, and when it gives none the finding has no line and no
\* column.
C12_SyntaxErrorPosition ==
  Rejected_validateJsonSyntax
    => /\ Returned
       /\ ~ret[1].result.valid
       /\ Len(ret[1].result.errors) = 1
       /\ ret[1].result.errors[1].type = "SyntaxError"
       /\ LET message == JSONparse(given.text).error.message
              finding == ret[1].result.errors[1]
          IN IF "position" \in DOMAIN message
             THEN /\ {"line", "column"} \subseteq DOMAIN finding
                  /\ finding.line = LineOf(given.text, message.position)
                  /\ finding.column = ColumnOf(given.text, message.position)
             ELSE /\ "line" \notin DOMAIN finding
                  /\ "column" \notin DOMAIN finding

\* C13: checkDuplicateKeys ends on every text: the call returns a report,
\* and for a text that JSON.parse rejects (one with a string that is not
\* closed, or an object or array that is not) the report is that of
\* validateJsonSyntax, returned by the catch of the try block before the
\* final check, whose string() never ends on such a text, has started.
C13_ScannerOnlyOnParsedText ==
  (given.kind = "text" /\ call.op = "checkDuplicateKeys" /\ ret # <<>>)
    => /\ Returned
       /\ ~JSONparse(given.text).ok
            => /\ ret[1] = validateJsonSyntax(given.text)
               /\ ~ret[1].result.valid

\* checkDuplicateKeys has returned for a text on which the final check
\* alone would never end: a string of the text is not closed
C13_UnterminatedStringReturned ==
  /\ given.kind = "text" /\ call.op = "checkDuplicateKeys" /\ Returned
  /\ Scan(given.text, NewResult).kind = "diverge"

====
